---------------------------- MODULE Spec2Model ----------------------------
(***************************************************************************)
(* Row-filter nodes of datatable (datatable/graph/rows_node.py): the       *)
(* factory make_rowfilter that classifies a `rows` selector into an RFNode,*)
(* and RFNode.execute, which composes the node's source RowIndex with the  *)
(* inversion flag and the frame's existing RowIndex and stores the result  *)
(* in the evaluation engine.                                               *)
(*                                                                         *)
(* A RowIndex is modelled by the ordered sequence of row positions it      *)
(* addresses.  Python's None is the record None, an optional integer       *)
(* (a slice bound) is the empty sequence or a one-element sequence.        *)
(***************************************************************************)
EXTENDS Integers, Sequences, FiniteSets, TLC

\* ------------------------------------------------------------------ bounds
\* Largest row count of a target frame.
MaxRows == 3
\* Longest list selector.
MaxLen == 3
\* Deepest nesting of callables returning callables.
MaxNest == 2
\* Depth at which the interpreter gives up a recursion (RecursionError).
RecursionLimit == 4

\* --------------------------------------------------------------- sentinels
None == [kind |-> "None"]
NotImplemented == [kind |-> "NotImplemented"]
RI(p) == [kind |-> "RowIndex", pos |-> p]
\* Truth value of an object used in `if x:`; None is false, a RowIndex
\* object is true.
Truthy(x) == x # None

\* ------------------------------------------------------ sequence helpers
RECURSIVE Flatten(_)
Flatten(ss) == IF ss = <<>> THEN <<>> ELSE Head(ss) \o Flatten(Tail(ss))

Range(s) == {s[i] : i \in 1..Len(s)}

RECURSIVE AscendingSeq(_)
\* The elements of a finite set of integers in ascending order.
AscendingSeq(S) ==
    IF S = {} THEN <<>>
    ELSE LET m == CHOOSE x \in S : \A y \in S : x <= y
         IN <<m>> \o AscendingSeq(S \ {m})

Max(S) == CHOOSE x \in S : \A y \in S : y <= x
MaxOf(a, b) == IF a >= b THEN a ELSE b
MinOf(a, b) == IF a <= b THEN a ELSE b

\* Optional integers: None is <<>>, the integer v is <<v>>.
NoInt == <<>>
Some(v) == <<v>>
IsNone(o) == o = <<>>
Val(o) == o[1]

\* ------------------------------------------- native RowIndex collaborator
\* core.rowindex_from_slice(start, count, step)
rowindex_from_slice(start, count, step) ==
    RI([i \in 1..count |-> start + (i - 1) * step])

\* core.rowindex_from_array(array)
rowindex_from_array(array) == RI(array)

\* core.rowindex_from_slicelist(bases, counts, steps): counts and steps may
\* be shorter than bases, the missing entries are 1.
rowindex_from_slicelist(bases, counts, steps) ==
    RI(Flatten([i \in 1..Len(bases) |->
          LET c == IF i <= Len(counts) THEN counts[i] ELSE 1
              s == IF i <= Len(steps) THEN steps[i] ELSE 1
          IN [j \in 1..c |-> bases[i] + (j - 1) * s]]))

RECURSIVE TruePositions(_, _)
TruePositions(col, i) ==
    IF i > Len(col) THEN <<>>
    ELSE (IF col[i] = 1 THEN <<i - 1>> ELSE <<>>) \o TruePositions(col, i + 1)

\* core.rowindex_from_column(col): a boolean column (values 1 for true and
\* 0 for false) selects the positions of its true values, an integer column
\* is the list of positions itself.
rowindex_from_column(col) ==
    IF col.ltype = "bool" THEN RI(TruePositions(col.data, 1))
    ELSE RI(col.data)

\* core.rowindex_from_filterfn(ptr, nrows): the rows where the compiled
\* predicate is true.
rowindex_from_filterfn(pred, nrows) == RI(TruePositions(pred, 1))

\* RowIndex.max
ri_max(ri) == Max(Range(ri.pos))

\* RowIndex.inverse(n): all positions of [0, n) not in the index, ascending.
inverse(ri, n) == RI(AscendingSeq((0..(n - 1)) \ Range(ri.pos)))

\* RowIndex.uplift(parent): position p of this index becomes parent[p].
\* A position outside the parent addresses no row of it (-1); UpliftDefined
\* states that no execution asks for one.
uplift(ri, parent) ==
    RI([i \in 1..Len(ri.pos) |->
          IF ri.pos[i] \in 0..(Len(parent.pos) - 1)
          THEN parent.pos[ri.pos[i] + 1] ELSE -1])


\* ------------------------------------------------------------- selectors
\* The values a caller can pass as `rows`, and the elements of a list.
IntElem(v) == [type |-> "int", value |-> v]
SliceElem(a, b, c) ==
    [type |-> "slice", start |-> a, stop |-> b, step |-> c, intvalued |-> TRUE]
\* A slice or range one of whose bounds is neither None nor an integer.
BadSliceElem == [type |-> "slice", start |-> Some(0), stop |-> NoInt,
                 step |-> NoInt, intvalued |-> FALSE]
RangeElem(a, b, c) ==
    [type |-> "range", start |-> a, stop |-> b, step |-> c, intvalued |-> TRUE]
OtherElem == [type |-> "str"]
ListSel(elems) == [type |-> "list", elems |-> elems]
NoneSel == [type |-> "NoneType"]
\* True is BoolSel(1), False is BoolSel(0).
BoolSel(b) == [type |-> "bool", value |-> b]
\* numpy.ndarray: shape, dtype and the elements in flat order.
ArraySel(shape, dtype, data) ==
    [type |-> "ndarray", shape |-> shape, dtype |-> dtype, data |-> data]
\* datatable.Frame: its number of columns, and the type and values of its
\* first column (nrows is the number of values).
FrameSel(ncols, ltype, data) ==
    [type |-> "Frame", ncols |-> ncols, ltype |-> ltype, data |-> data]
\* A BaseExpr: its stype after resolve(), the boolean column it evaluates to
\* on the target frame, and whether evaluating it raises.
ExprSel(stype, mask, raises) ==
    [type |-> "expr", stype |-> stype, mask |-> mask, raises |-> raises]
\* A function: what it returns when called with f.  A function of level k
\* returns a function of level k-1, a function of level 0 returns `ret`; a
\* function with self = TRUE returns itself.
FuncSel(level, ret, self) ==
    [type |-> "function", level |-> level, ret |-> ret, self |-> self]
\* A sort node: the index of the sorted column, the row index of that column
\* and the order its make_rowindex() returns.
SortSel(colidx, rowindex, order) ==
    [type |-> "sort", colidx |-> colidx, rowindex |-> rowindex,
     order |-> order]
\* rows(f)
CallFunction(fn) ==
    IF fn.self THEN fn
    ELSE IF fn.level = 0 THEN fn.ret
    ELSE FuncSel(fn.level - 1, fn.ret, FALSE)

\* ----------------------------------------- datatable.utils.misc helpers
Triple(t) == [ok |-> TRUE, triple |-> t]
NoTriple == [ok |-> FALSE, triple |-> <<0, 0, 0>>]

\* normalize_slice(e, n): the (start, count, step) of slice e on n rows.
\* A slice with step 0 is (start, stop, 0): row `start` taken `stop` times.
normalize_slice(e, n) ==
    IF n = 0 THEN Triple(<<0, 0, 1>>)
    ELSE
    LET step == IF IsNone(e.step) THEN 1 ELSE Val(e.step) IN
    IF step = 0 THEN
        IF ~IsNone(e.start) /\ ~IsNone(e.stop) /\ Val(e.stop) >= 0
        THEN LET s0 == IF Val(e.start) < 0 THEN Val(e.start) + n
                       ELSE Val(e.start)
             IN IF s0 < 0 THEN Triple(<<0, 0, 0>>)
                ELSE Triple(<<s0, Val(e.stop), 0>>)
        ELSE NoTriple
    ELSE
    LET s0 == IF IsNone(e.start) THEN (IF step > 0 THEN 0 ELSE n - 1)
              ELSE IF Val(e.start) < 0 THEN Val(e.start) + n
              ELSE Val(e.start)
        empty == ~IsNone(e.start)
                 /\ ((s0 < 0 /\ step < 0) \/ (s0 >= n /\ step > 0))
        start == MinOf(MaxOf(0, s0), n - 1)
        stop == IF IsNone(e.stop) THEN 0
                ELSE IF Val(e.stop) < 0 THEN Val(e.stop) + n
                ELSE Val(e.stop)
        count ==
            IF IsNone(e.stop)
            THEN (IF step > 0 THEN ((n - 1 - start) \div step) + 1
                  ELSE (start \div (-step)) + 1)
            ELSE IF step > 0
            THEN (IF stop > start
                  THEN ((MinOf(n, stop) - 1 - start) \div step) + 1
                  ELSE 0)
            ELSE (IF stop < start
                  THEN ((start - MaxOf(stop, -1) - 1) \div (-step)) + 1
                  ELSE 0)
    IN IF empty THEN Triple(<<0, 0, 0>>)
       ELSE Triple(<<start, count, step>>)

\* normalize_range(e, n): the (start, count, step) of range e, or None (not
\* ok) when the range addresses a row outside the frame or mixes negative
\* and non-negative indices.
normalize_range(e, n) ==
    LET a == Val(e.start)
        b == Val(e.stop)
        c == Val(e.step)
        count == IF c > 0 THEN MaxOf(0, ((b - a - 1) \div c) + 1)
                 ELSE MaxOf(0, ((a - b - 1) \div (-c)) + 1)
        finish == a + (count - 1) * c
    IN IF count = 0 THEN Triple(<<0, 0, c>>)
       ELSE IF a >= 0
       THEN (IF a >= n \/ finish < 0 \/ finish >= n THEN NoTriple
             ELSE Triple(<<a, count, c>>))
       ELSE (IF a + n < 0 \/ a + n >= n \/ finish + n < 0 \/ finish + n >= n
             THEN NoTriple
             ELSE Triple(<<a + n, count, c>>))

\* ------------------------------------------------------------ RFNodes
NoNode == [kind |-> "None"]
\* RFNode.__init__: the inversion flag starts unset.
AllRFNode == [kind |-> "All", inverse |-> FALSE]
SliceRFNode(start, count, step) ==
    [kind |-> "Slice", inverse |-> FALSE, triple |-> <<start, count, step>>]
\* The assertions of SliceRFNode.__init__.
SliceAsserts(start, count, step) ==
    start >= 0 /\ count >= 0 /\ start + (count - 1) * step >= 0
ArrayRFNode(array) == [kind |-> "Array", inverse |-> FALSE, array |-> array]
MultiSliceRFNode(bases, counts, steps) ==
    [kind |-> "MultiSlice", inverse |-> FALSE,
     bases |-> bases, counts |-> counts, steps |-> steps]
BooleanColumnRFNode(col) ==
    [kind |-> "BooleanColumn", inverse |-> FALSE, coldt |-> col]
IntegerColumnRFNode(col) ==
    [kind |-> "IntegerColumn", inverse |-> FALSE, coldt |-> col]
\* SortedRFNode.__init__
SortedRFNode(sort_node) ==
    [kind |-> "Sorted", inverse |-> FALSE, sortnode |-> sort_node]
\* FilterExprRFNode.__init__: under the Llvm engine the node reserves a
\* function name (and registers itself with the engine, see MakeRowfilter).
FilterExprRFNode(expr, llvm) ==
    [kind |-> "FilterExpr", inverse |-> FALSE, expr |-> expr,
     fnname |-> IF llvm THEN Some(0) ELSE NoInt]

\* ------------------------------------------------------- make_rowfilter
\* What a call returns or raises: status "ok" with the node, or the name of
\* the exception; calls counts the invocations of callable selectors.
Ok(node) == [status |-> "ok", node |-> node, calls |-> 0, msg |-> ""]
Raise(exc) == [status |-> exc, node |-> NoNode, calls |-> 0, msg |-> ""]
RaiseMsg(exc, msg) == [Raise(exc) EXCEPT !.msg = msg]

\* `elem % nrows` forces the row number to become non-negative.
IntBaseNoMod(elem, nrows) == elem
IntBase(elem, nrows) == elem % nrows

\* The accumulators of the loop over a list selector.
Acc0 == [bases |-> <<>>, counts |-> <<>>, steps |-> <<>>, err |-> ""]

\* A slice of count > 1 appended without aligning counts and steps first.
AppendSliceNoBackfill(acc, start, count, step) ==
    [acc EXCEPT !.bases = Append(@, start),
                !.counts = Append(@, count),
                !.steps = Append(@, step)]
\* A slice of count > 1: counts and steps are first padded with 1 up to the
\* length of bases.
AppendSlice(acc, start, count, step) ==
    LET padded == [i \in 1..(Len(acc.bases) - Len(acc.counts)) |-> 1]
        counts == IF Len(acc.counts) < Len(acc.bases)
                  THEN acc.counts \o padded ELSE acc.counts
        steps == IF Len(acc.counts) < Len(acc.bases)
                 THEN acc.steps
                      \o [i \in 1..(Len(acc.bases) - Len(acc.steps)) |-> 1]
                 ELSE acc.steps
    IN [acc EXCEPT !.bases = Append(@, start),
                   !.counts = Append(counts, count),
                   !.steps = Append(steps, step)]

\* One iteration of the loop over the elements.
ListStep(acc, elem, nrows) ==
    IF elem.type = "int" THEN
        IF -nrows <= elem.value /\ elem.value < nrows
        THEN [acc EXCEPT !.bases = Append(@, IntBase(elem.value, nrows))]
        ELSE [acc EXCEPT !.err = "TValueError"]
    ELSE IF elem.type \in {"range", "slice"} THEN
        IF ~elem.intvalued THEN [acc EXCEPT !.err = "TValueError"]
        ELSE
        LET res == IF elem.type = "range" THEN normalize_range(elem, nrows)
                   ELSE normalize_slice(elem, nrows)
            start == res.triple[1]
            count == res.triple[2]
            step == res.triple[3]
        IN IF ~res.ok
           THEN [acc EXCEPT !.err = IF elem.type = "range" THEN "TValueError"
                                    ELSE "ValueError"]
           ELSE IF count = 0 THEN acc
           ELSE IF count = 1 THEN [acc EXCEPT !.bases = Append(@, start)]
           ELSE AppendSlice(acc, start, count, step)
    ELSE [acc EXCEPT !.err = "TValueError"]

RECURSIVE ListLoop(_, _, _)
ListLoop(elems, acc, nrows) ==
    IF elems = <<>> \/ acc.err # "" THEN acc
    ELSE ListLoop(Tail(elems), ListStep(acc, Head(elems), nrows), nrows)

SliceNode(start, count, step) ==
    IF SliceAsserts(start, count, step) THEN Ok(SliceRFNode(start, count, step))
    ELSE Raise("AssertionError")

\* The node chosen after the loop, never All.
ListResultNoAll(acc, nrows) ==
    IF acc.counts = <<>> THEN
        IF Len(acc.bases) = 1 THEN SliceNode(acc.bases[1], 1, 1)
        ELSE Ok(ArrayRFNode(acc.bases))
    ELSE IF Len(acc.bases) = 1
    THEN SliceNode(acc.bases[1], acc.counts[1], acc.steps[1])
    ELSE Ok(MultiSliceRFNode(acc.bases, acc.counts, acc.steps))
\* The node chosen after the loop.
ListResult(acc, nrows) ==
    IF acc.counts = <<>> THEN
        IF Len(acc.bases) = 1 THEN
            IF acc.bases[1] = 0 /\ nrows = 1 THEN Ok(AllRFNode)
            ELSE SliceNode(acc.bases[1], 1, 1)
        ELSE Ok(ArrayRFNode(acc.bases))
    ELSE IF Len(acc.bases) = 1 THEN
        IF acc.bases[1] = 0 /\ acc.counts[1] = nrows /\ acc.steps[1] = 1
        THEN Ok(AllRFNode)
        ELSE SliceNode(acc.bases[1], acc.counts[1], acc.steps[1])
    ELSE Ok(MultiSliceRFNode(acc.bases, acc.counts, acc.steps))

\* The list/tuple branch.
FromList(elems, nrows) ==
    LET acc == ListLoop(elems, Acc0, nrows)
    IN IF acc.err # "" THEN Raise(acc.err) ELSE ListResult(acc, nrows)

\* arr.T of a two-dimensional array.
Transpose(arr) == [arr EXCEPT !.shape = <<arr.shape[2], arr.shape[1]>>]
\* datatable.Frame(arr): one column per entry of the second axis.
FrameFromNumpy(arr) ==
    FrameSel(IF Len(arr.shape) = 1 THEN 1 ELSE arr.shape[2],
             IF arr.dtype = "bool" THEN "bool" ELSE "int",
             arr.data)

\* The single-column Frame branch.
FromFrame(rows, nrows) ==
    IF rows.ncols # 1 THEN Raise("TValueError")
    ELSE IF rows.ltype = "bool" THEN
        IF Len(rows.data) # nrows THEN Raise("TValueError")
        ELSE Ok(BooleanColumnRFNode(rows))
    ELSE IF rows.ltype = "int" THEN Ok(IntegerColumnRFNode(rows))
    ELSE Raise("TTypeError")

\* str(arr.dtype).startswith("int"): the signed integer dtypes of numpy.
IntDtypes == {"int8", "int16", "int32", "int64"}
StartsWithInt(dtype) == dtype \in IntDtypes

\* The numpy array branch, which ends in the Frame branch.
FromNumpy(rows, nrows) ==
    LET nd == Len(rows.shape)
        mindim == IF rows.shape[1] <= rows.shape[2] THEN rows.shape[1]
                  ELSE rows.shape[2]
    IN IF ~(nd = 1 \/ (nd = 2 /\ mindim = 1)) THEN Raise("TValueError")
       ELSE
       LET arr == IF nd = 2 /\ rows.shape[2] > 1 THEN Transpose(rows) ELSE rows
       IN IF ~(arr.dtype = "bool" \/ StartsWithInt(arr.dtype))
          THEN Raise("TValueError")
          ELSE IF arr.dtype = "bool" /\ arr.shape[Len(arr.shape)] # nrows
          THEN Raise("TValueError")
          ELSE FromFrame(FrameFromNumpy(arr), nrows)

RECURSIVE make_rowfilter(_, _, _, _, _)
\* make_rowfilter(rows, ee, _nested); depth is the depth of the Python call
\* stack, at RecursionLimit the interpreter raises RecursionError.
make_rowfilter(rows, nrows, llvm, nested, depth) ==
    IF depth >= RecursionLimit THEN Raise("RecursionError")
    ELSE IF rows.type = "NoneType" THEN Ok(AllRFNode)
    ELSE IF rows.type = "bool" THEN Raise("TTypeError")
    ELSE IF rows.type \in {"int", "slice", "range"}
    THEN FromList(<<rows>>, nrows)
    ELSE IF rows.type = "list" THEN FromList(rows.elems, nrows)
    ELSE IF rows.type = "ndarray" THEN FromNumpy(rows, nrows)
    ELSE IF rows.type = "Frame" THEN FromFrame(rows, nrows)
    ELSE IF rows.type = "function" THEN
        LET r == make_rowfilter(CallFunction(rows), nrows, llvm, TRUE,
                                depth + 1)
        IN [r EXCEPT !.calls = @ + 1]
    ELSE IF rows.type = "expr" THEN
        IF rows.stype # "bool8" THEN Raise("AssertionError")
        ELSE Ok(FilterExprRFNode(rows, llvm))
    ELSE IF nested
    THEN RaiseMsg("TTypeError", "Unexpected result produced by the rows function")
    ELSE RaiseMsg("TTypeError", "Unexpected rows argument")

\* --------------------------------------------------------- RFNode.execute
Done(ri) == [exc |-> "", args |-> <<>>, ri |-> ri]
Fail(exc, args) == [exc |-> exc, args |-> args, ri |-> None]

\* IntegerColumnRFNode._make_source_rowindex with the bound test `>`.
IntegerColumnSourceOffByOne(node, nrows) ==
    LET ri == rowindex_from_column(node.coldt)
    IN IF ri_max(ri) > nrows THEN Fail("ValueError", <<ri_max(ri), nrows>>)
       ELSE Done(ri)
\* IntegerColumnRFNode._make_source_rowindex
IntegerColumnSource(node, nrows) ==
    LET ri == rowindex_from_column(node.coldt)
    IN IF ri_max(ri) >= nrows THEN Fail("ValueError", <<ri_max(ri), nrows>>)
       ELSE Done(ri)

\* _make_source_rowindex of each node class.
make_source_rowindex(node, nrows) ==
    CASE node.kind = "All" -> Done(None)
      [] node.kind = "Slice" ->
            Done(rowindex_from_slice(node.triple[1], node.triple[2],
                                     node.triple[3]))
      [] node.kind = "Array" -> Done(rowindex_from_array(node.array))
      [] node.kind = "MultiSlice" ->
            Done(rowindex_from_slicelist(node.bases, node.counts, node.steps))
      [] node.kind = "BooleanColumn" -> Done(rowindex_from_column(node.coldt))
      [] node.kind = "IntegerColumn" -> IntegerColumnSource(node, nrows)
      [] node.kind = "FilterExpr" -> Done(NotImplemented)

\* RFNode._make_final_rowindex with uplift applied before inverse.
RFNode_make_final_rowindex_UpliftFirst(inv, ri_source, ri_target, nrows) ==
    IF ri_source = None
    THEN (IF inv THEN rowindex_from_slice(0, 0, 0) ELSE ri_target)
    ELSE LET r1 == IF Truthy(ri_target) THEN uplift(ri_source, ri_target)
                   ELSE ri_source
         IN IF inv THEN inverse(r1, nrows) ELSE r1
\* RFNode._make_final_rowindex
RFNode_make_final_rowindex(inv, ri_source, ri_target, nrows) ==
    IF ri_source = None
    THEN (IF inv THEN rowindex_from_slice(0, 0, 0) ELSE ri_target)
    ELSE LET r1 == IF inv THEN inverse(ri_source, nrows) ELSE ri_source
         IN IF Truthy(ri_target) THEN uplift(r1, ri_target) ELSE r1

\* expr.evaluate_eager(ee): the boolean column of the expression.
evaluate_eager(expr) == [ltype |-> "bool", data |-> expr.mask]

\* FilterExprRFNode.generate_c: the predicate of the generated loop, which
\* appends row i when the value of the expression is true.  The loop reads
\* neither the inversion flag nor any row index.
generate_c(node) == node.expr.mask

\* FilterExprRFNode._make_final_rowindex without the inversion step of the
\* eager branch.
FilterExpr_make_final_rowindex_NoInverse(node, nrows, isllvm, ee_rowindex) ==
    IF isllvm
    THEN Done(rowindex_from_filterfn(generate_c(node), nrows))
    ELSE IF node.expr.raises THEN Fail("EvalError", <<>>)
    ELSE LET r0 == rowindex_from_column(evaluate_eager(node.expr))
         IN Done(IF Truthy(ee_rowindex) THEN uplift(r0, ee_rowindex) ELSE r0)

\* FilterExprRFNode._make_final_rowindex
FilterExpr_make_final_rowindex(node, nrows, isllvm, ee_rowindex) ==
    IF isllvm
    THEN Done(rowindex_from_filterfn(generate_c(node), nrows))
    ELSE IF node.expr.raises THEN Fail("EvalError", <<>>)
    ELSE LET r0 == rowindex_from_column(evaluate_eager(node.expr))
             r1 == IF node.inverse THEN inverse(r0, nrows) ELSE r0
         IN Done(IF Truthy(ee_rowindex) THEN uplift(r1, ee_rowindex) ELSE r1)

make_final_rowindex(node, ri_source, ri_target, nrows, isllvm, ee_rowindex) ==
    IF node.kind = "FilterExpr"
    THEN FilterExpr_make_final_rowindex(node, nrows, isllvm, ee_rowindex)
    ELSE Done(RFNode_make_final_rowindex(node.inverse, ri_source, ri_target,
                                         nrows))

\* The engine's slots: ee._source_rowindex, the pair stored by
\* ee.set_final_rowindex, ee.rowindex, and the row index of the global f.
Slots(src, fin, tgt, cur, fri) ==
    [source |-> src, final |-> fin, target |-> tgt, rowindex |-> cur, f |-> fri]

\* RFNode.execute storing the source index in every slot before the final
\* index is computed.
execute_WritesFirst(node, nrows, ri_target, isllvm, slots) ==
    LET src == make_source_rowindex(node, nrows)
        s1 == Slots(src.ri, src.ri, ri_target, src.ri, src.ri)
        fin == make_final_rowindex(node, src.ri, ri_target, nrows, isllvm,
                                   slots.rowindex)
    IN IF src.exc # "" THEN [raised |-> src, slots |-> slots]
       ELSE IF fin.exc # "" THEN [raised |-> fin, slots |-> s1]
       ELSE [raised |-> fin,
             slots |-> Slots(src.ri, fin.ri, ri_target, fin.ri, fin.ri)]
\* RFNode.execute: what it raises and the slots it leaves.
execute(node, nrows, ri_target, isllvm, slots) ==
    LET src == make_source_rowindex(node, nrows)
        s1 == [slots EXCEPT !.source = src.ri]
        fin == make_final_rowindex(node, src.ri, ri_target, nrows, isllvm,
                                   slots.rowindex)
    IN IF src.exc # "" THEN [raised |-> src, slots |-> slots]
       ELSE IF fin.exc # "" THEN [raised |-> fin, slots |-> s1]
       ELSE [raised |-> fin,
             slots |-> Slots(src.ri, fin.ri, ri_target, fin.ri, fin.ri)]

\* sort_node.make_rowindex(): the order computed by the sort.
make_rowindex(sort_node) == RI(sort_node.order)

\* SortedRFNode.execute: the slots it leaves.  The source slot is set to
\* NotImplemented, the final index is the sort order as it is, stored with
\* the row index of the sorted column; the inversion flag is not read.
SortedRFNode_execute(node) ==
    LET ri_target == node.sortnode.rowindex
        finalri == make_rowindex(node.sortnode)
    IN Slots(NotImplemented, finalri, ri_target, finalri, finalri)

\* ------------------------------------------------------------------ state
VARIABLES
    nrows,            \* ee.dt.nrows
    ri_target,        \* ee.dt.internal.rowindex: None unless dt is a view
    llvm,             \* isinstance(ee, LlvmEvaluationEngine)
    rows,             \* the `rows` argument of the selection
    pc,               \* "new", "made", "make_failed", "done", "exec_failed"
    node,             \* the RFNode made by make_rowfilter or SortedRFNode
    raised,           \* the exception of the last call (exc = "" if none)
    calls,            \* invocations of callable selectors by make_rowfilter
    ee_nodes,         \* function names registered by ee.add_node
    ee                \* the engine's index slots, see Slots

vars == <<nrows, ri_target, llvm, rows, pc, node, raised, calls, ee_nodes, ee>>

NoError == [exc |-> "", args |-> <<>>]

\* make_rowfilter(rows, ee)
MakeRowfilter ==
    /\ pc = "new"
    /\ LET r == make_rowfilter(rows, nrows, llvm, FALSE, 0)
       IN /\ node' = r.node
          /\ calls' = r.calls
          /\ raised' = [exc |-> IF r.status = "ok" THEN "" ELSE r.status,
                        args |-> <<>>]
          /\ pc' = IF r.status = "ok" THEN "made" ELSE "make_failed"
          /\ ee_nodes' = IF r.status = "ok" /\ r.node.kind = "FilterExpr" /\ llvm
                         THEN Append(ee_nodes, r.node.fnname)
                         ELSE ee_nodes
    /\ UNCHANGED <<nrows, ri_target, llvm, rows, ee>>

\* RFNode.negate
Negate ==
    /\ pc = "made"
    /\ node' = [node EXCEPT !.inverse = ~@]
    /\ UNCHANGED <<nrows, ri_target, llvm, rows, pc, raised, calls, ee_nodes, ee>>

\* SortedRFNode(sort_node)
MakeSorted ==
    /\ pc = "new"
    /\ rows.type = "sort"
    /\ node' = SortedRFNode(rows)
    /\ pc' = "made"
    /\ UNCHANGED <<nrows, ri_target, llvm, rows, raised, calls, ee_nodes, ee>>

\* SortedRFNode.execute, which overrides RFNode.execute
ExecuteSorted ==
    /\ pc = "made"
    /\ node.kind = "Sorted"
    /\ ee' = SortedRFNode_execute(node)
    /\ pc' = "done"
    /\ UNCHANGED <<nrows, ri_target, llvm, rows, node, raised, calls, ee_nodes>>

\* RFNode.execute
Execute ==
    /\ pc = "made"
    /\ node.kind # "Sorted"
    /\ LET r == execute(node, nrows, ri_target, llvm, ee)
       IN /\ ee' = r.slots
          /\ raised' = [exc |-> r.raised.exc, args |-> r.raised.args]
          /\ pc' = IF r.raised.exc = "" THEN "done" ELSE "exec_failed"
    /\ UNCHANGED <<nrows, ri_target, llvm, rows, node, calls, ee_nodes>>

Next == MakeRowfilter \/ MakeSorted \/ Negate \/ Execute \/ ExecuteSorted

\* ----------------------------------------------------------- input sets
Opt(S) == {NoInt} \cup {Some(v) : v \in S}
Steps == {-2, -1, 1, 2}
\* Boolean columns of k rows.
Bits == {0, 1}
Masks(k) == [1..k -> Bits]
\* Sequences over S of length lo..hi.
SeqsOf(S, lo, hi) == UNION {[1..k -> S] : k \in lo..hi}
\* Non-empty integer columns of row numbers, the row number n included.
IntColumns(n) == SeqsOf(0..n, 1, MaxLen)

\* An integer, a slice or a range, alone or as the one element of a list.
UnitElems(n) ==
    {IntElem(v) : v \in (-(n + 1))..n}
    \cup {SliceElem(a, b, c) : a \in Opt((-(n + 1))..(n + 1)),
                               b \in Opt((-(n + 1))..(n + 1)),
                               c \in Opt(Steps)}
    \cup {SliceElem(Some(a), b, Some(0)) : a \in (-n)..(n - 1), b \in Opt(-1..2)}
    \cup {RangeElem(Some(a), Some(b), Some(c)) :
              a \in (-(n + 1))..(n + 1), b \in (-(n + 1))..(n + 1), c \in Steps}
    \cup {BadSliceElem, OtherElem}

\* The elements of the longer lists.
CoreElems(n) ==
    {IntElem(0), IntElem(-1), SliceElem(NoInt, NoInt, NoInt),
     SliceElem(Some(1), NoInt, NoInt), SliceElem(NoInt, NoInt, Some(-1))}

ListElems(n) ==
    {IntElem(v) : v \in (-n)..n}
    \cup {SliceElem(NoInt, NoInt, NoInt), SliceElem(Some(1), NoInt, NoInt),
          SliceElem(NoInt, NoInt, Some(-1)), SliceElem(NoInt, NoInt, Some(2)),
          SliceElem(Some(-1), NoInt, NoInt), SliceElem(Some(1), Some(1), NoInt),
          SliceElem(Some(0), Some(2), Some(0)),
          RangeElem(Some(0), Some(2), Some(1))}

\* The shapes of an array of k elements along one axis.
Shapes(k) == {<<k>>, <<1, k>>, <<k, 1>>}
ArraySels(n) ==
    UNION {{ArraySel(sh, "bool", d) : sh \in Shapes(Len(d))} :
              d \in SeqsOf(Bits, 0, MaxRows + 1)}
    \cup UNION {{ArraySel(sh, t, d) : sh \in Shapes(Len(d)), t \in IntDtypes} :
              d \in IntColumns(n)}
    \cup {ArraySel(<<2, 2>>, "bool", <<1, 0, 1, 0>>),
          ArraySel(<<1, 1, 1>>, "bool", <<1>>),
          ArraySel(<<1>>, "float64", <<0>>),
          ArraySel(<<1>>, "uint8", <<0>>)}

FrameSels(n) ==
    {FrameSel(1, "bool", d) : d \in SeqsOf(Bits, 0, MaxRows + 1)}
    \cup {FrameSel(1, "int", d) : d \in IntColumns(n)}
    \cup {FrameSel(2, "bool", [i \in 1..n |-> 1]), FrameSel(1, "str", <<0>>)}

ExprSels(n) ==
    {ExprSel("bool8", m, r) : m \in Masks(n), r \in BOOLEAN}
    \cup {ExprSel("int32", [i \in 1..n |-> 0], FALSE)}

\* What the callable selectors return in the end.
FuncReturns(n) ==
    {NoneSel, IntElem(0), OtherElem, BoolSel(1),
     FrameSel(1, "bool", [i \in 1..n |-> 1]),
     ExprSel("bool8", [i \in 1..n |-> 1], FALSE)}
FuncSels(n) ==
    {FuncSel(k, r, FALSE) : k \in 0..MaxNest, r \in FuncReturns(n)}
    \cup {FuncSel(0, NoneSel, TRUE)}

Selectors(n) ==
    UnitElems(n)
    \cup {ListSel(<<e>>) : e \in UnitElems(n)}
    \cup {ListSel(l) : l \in SeqsOf(CoreElems(n), 0, MaxLen)}
    \cup {NoneSel, BoolSel(1), BoolSel(0)}
    \cup ArraySels(n) \cup FrameSels(n) \cup ExprSels(n) \cup FuncSels(n)

ListSelectors(n) == {ListSel(l) : l \in SeqsOf(ListElems(n), 0, MaxLen)}

\* The RowIndex of a view of n rows over a frame of n + 1 rows: rows 1..n,
\* or the same rows in reverse.
Views(n) ==
    {None, RI([i \in 1..n |-> i]), RI([i \in 1..n |-> n + 1 - i])}

\* The orders of n rows: the permutations of 0..n-1.
Orders(n) ==
    {o \in [1..n -> 0..(n - 1)] :
        \A i \in 1..n : \A j \in 1..n : o[i] = o[j] => i = j}
\* The sort nodes of a frame of n rows whose columns have the row index T.
SortSels(n, T) == {SortSel(0, T, o) : o \in Orders(n)}

\* ---------------------------------------------------------- specification
\* A new evaluation engine for a frame and a selector: the source and final
\* slots are empty, the current index of the engine and of f is the frame's
\* existing index T (None unless the frame is a view).
InitWith(n, T, isllvm, r) ==
    /\ nrows = n
    /\ ri_target = T
    /\ llvm = isllvm
    /\ rows = r
    /\ pc = "new"
    /\ node = NoNode
    /\ raised = NoError
    /\ calls = 0
    /\ ee_nodes = <<>>
    /\ ee = Slots(None, None, None, T, T)

Init ==
    \E n \in 0..MaxRows : \E T \in Views(n) : \E l \in BOOLEAN :
        \E r \in Selectors(n) \cup SortSels(n, T) : InitWith(n, T, l, r)

Spec == Init /\ [][Next]_vars

\* The factory alone, on list selectors.
InitList ==
    \E n \in 0..MaxRows : \E r \in ListSelectors(n) : InitWith(n, None, FALSE, r)

NextList == MakeRowfilter

SpecList == InitList /\ [][NextList]_vars

\* ------------------------------------------------------------- properties
SharedKinds ==
    {"All", "Slice", "Array", "MultiSlice", "BooleanColumn", "IntegerColumn"}

\* Every position of a stored final index is a row of the parent frame:
\* uplift was never asked for a position outside the parent.
UpliftDefined ==
    (pc = "done" /\ ee.final # None) => \A i \in 1..Len(ee.final.pos) : ee.final.pos[i] >= 0

\* C1: for the node classes that use RFNode._make_final_rowindex, execute()
\* stores as final index: with no source index S, the frame's index T if the
\* node is not inverted and the empty index if it is; with a source index,
\* S' = inverse(S, nrows) if inverted else S, uplifted to T when T is present
\* (inverse first, uplift second).  The absent selector gives the All node,
\* which has no source index.
C1_FinalIndexComposition ==
    /\ (pc # "new" /\ rows = NoneSel) => node.kind = "All"
    /\ (pc = "done" /\ node.kind \in SharedKinds) =>
        LET S == ee.source
            T == ri_target
            S1 == IF node.inverse THEN inverse(S, nrows) ELSE S
        IN ee.final = IF S = None THEN (IF node.inverse THEN RI(<<>>) ELSE T)
                      ELSE IF T # None THEN uplift(S1, T)
                      ELSE S1

\* An inverted MultiSlice node executed on a view, leaving rows selected.
C1_Witness ==
    /\ pc = "done"
    /\ node.kind = "MultiSlice"
    /\ node.inverse
    /\ ri_target # None
    /\ ee.final # None
    /\ ee.final.pos # <<>>

\* What the claims say a list element and a node address.
ValidElem(e, n) ==
    \/ e.type = "int" /\ -n <= e.value /\ e.value < n
    \/ e.type = "slice" /\ e.intvalued /\ normalize_slice(e, n).ok
    \/ e.type = "range" /\ e.intvalued /\ normalize_range(e, n).ok
Expand(start, count, step) == [i \in 1..count |-> start + (i - 1) * step]
ElemPositions(e, n) ==
    IF e.type = "int" THEN <<e.value % n>>
    ELSE LET t == IF e.type = "range" THEN normalize_range(e, n).triple
                  ELSE normalize_slice(e, n).triple
         IN Expand(t[1], t[2], t[3])
NodeTriple(nd, i) ==
    <<nd.bases[i],
      IF i <= Len(nd.counts) THEN nd.counts[i] ELSE 1,
      IF i <= Len(nd.steps) THEN nd.steps[i] ELSE 1>>
NodePositions(nd, n) ==
    CASE nd.kind = "All" -> [i \in 1..n |-> i - 1]
      [] nd.kind = "Slice" -> Expand(nd.triple[1], nd.triple[2], nd.triple[3])
      [] nd.kind = "Array" -> nd.array
      [] nd.kind = "MultiSlice" ->
            Flatten([i \in 1..Len(nd.bases) |->
                       Expand(NodeTriple(nd, i)[1], NodeTriple(nd, i)[2],
                              NodeTriple(nd, i)[3])])
NonEmpty(s) == s # <<>>

\* C2: for a list selector whose elements are all valid, make_rowfilter
\* returns an All, Slice, Array or MultiSlice node addressing the
\* concatenation, in element order, of the positions of each element; in a
\* MultiSlice node counts and steps have equal length, are no longer than
\* bases, and triple i expands to the positions of the i-th element that
\* addresses any row.
C2_ListPositions ==
    (pc # "new" /\ rows.type = "list"
       /\ \A i \in 1..Len(rows.elems) : ValidElem(rows.elems[i], nrows)) =>
        LET segs == [i \in 1..Len(rows.elems) |->
                        ElemPositions(rows.elems[i], nrows)]
            used == SelectSeq(segs, NonEmpty)
        IN /\ pc = "made"
           /\ node.kind \in {"All", "Slice", "Array", "MultiSlice"}
           /\ NodePositions(node, nrows) = Flatten(segs)
           /\ node.kind = "MultiSlice" =>
                /\ Len(node.counts) = Len(node.steps)
                /\ Len(node.counts) <= Len(node.bases)
                /\ Len(node.bases) = Len(used)
                /\ \A i \in 1..Len(node.bases) :
                      LET t == NodeTriple(node, i)
                      IN Expand(t[1], t[2], t[3]) = used[i]

\* A MultiSlice node whose counts were padded for a leading single row and
\* are shorter than bases because of a trailing one.
C2_Witness ==
    /\ pc = "made"
    /\ node.kind = "MultiSlice"
    /\ Len(node.counts) >= 2
    /\ node.counts[1] = 1
    /\ Len(node.counts) < Len(node.bases)

IsOneIntList(r, n) ==
    /\ r.type = "list"
    /\ Len(r.elems) = 1
    /\ r.elems[1].type = "int"
    /\ -n <= r.elems[1].value
    /\ r.elems[1].value < n

\* C3 as stated: for nrows > 0 and -nrows <= e < nrows the selector [e] gives
\* a Slice node (e mod nrows, 1, 1).
C3_Original ==
    (pc # "new" /\ nrows > 0 /\ IsOneIntList(rows, nrows)) =>
        /\ pc # "make_failed"
        /\ node.kind = "Slice"
        /\ node.triple = <<rows.elems[1].value % nrows, 1, 1>>

\* C3 amended: the Slice node (e mod nrows, 1, 1) is returned for nrows > 1;
\* on a frame of one row the selector [e] gives the All node.
C3_UnitSlice ==
    (pc # "new" /\ nrows > 0 /\ IsOneIntList(rows, nrows)) =>
        /\ pc # "make_failed"
        /\ nrows > 1 => /\ node.kind = "Slice"
                        /\ node.triple = <<rows.elems[1].value % nrows, 1, 1>>
        /\ nrows = 1 => node.kind = "All"

\* The selector [-1] on more than one row.
C3_Witness ==
    /\ pc = "made"
    /\ nrows > 1
    /\ rows = ListSel(<<IntElem(-1)>>)
    /\ node.kind = "Slice"
    /\ node.triple = <<nrows - 1, 1, 1>>

FullSlice(n) == SliceElem(Some(0), Some(n), Some(1))

\* C4 as stated: for every nrows the selector slice(0, nrows, 1) gives All.
C4_Original ==
    (pc # "new" /\ rows = FullSlice(nrows)) =>
        (pc # "make_failed" /\ node.kind = "All")

\* C4 amended: slice(0, nrows, 1) gives All for every nrows >= 1; on a frame
\* without rows it gives the Array node of no rows.
C4_FullSliceIsAll ==
    (pc # "new" /\ rows = FullSlice(nrows)) =>
        /\ pc # "make_failed"
        /\ nrows >= 1 => node.kind = "All"
        /\ nrows = 0 => (node.kind = "Array" /\ node.array = <<>>)

\* slice(0, nrows, 1) on at least two rows.
C4_Witness ==
    /\ pc = "made"
    /\ nrows >= 2
    /\ rows = FullSlice(nrows)
    /\ node.kind = "All"

IsMaskSel(r) ==
    \/ r.type = "Frame" /\ r.ncols = 1 /\ r.ltype = "bool"
    \/ /\ r.type = "ndarray"
       /\ r.dtype = "bool"
       /\ \/ Len(r.shape) = 1
          \/ Len(r.shape) = 2 /\ (r.shape[1] = 1 \/ r.shape[2] = 1)

\* C5: a boolean mask (a one-column boolean frame, or a boolean array of one
\* dimension or of two with one axis of length 1) fails with a value error
\* exactly when its number of elements differs from nrows, and gives a
\* BooleanColumn node otherwise.
C5_MaskLength ==
    (pc # "new" /\ IsMaskSel(rows)) =>
        /\ (pc = "make_failed") <=> (Len(rows.data) # nrows)
        /\ pc = "make_failed" => raised.exc = "TValueError"
        /\ pc # "make_failed" => node.kind = "BooleanColumn"

IsIntColumnSel(r) ==
    \/ r.type = "Frame" /\ r.ncols = 1 /\ r.ltype = "int"
    \/ /\ r.type = "ndarray"
       /\ StartsWithInt(r.dtype)
       /\ \/ Len(r.shape) = 1
          \/ Len(r.shape) = 2 /\ (r.shape[1] = 1 \/ r.shape[2] = 1)

\* C6: a one-column integer frame (or an integer array of one column) gives
\* an IntegerColumn node; executing it
\* raises ValueError, reporting an index of the column that is >= nrows and
\* nrows, exactly when some value of the column is >= nrows, and otherwise
\* stores the column's values as source index.
C6_IntegerColumnBounds ==
    IsIntColumnSel(rows) =>
        /\ pc # "new" => (pc # "make_failed" /\ node.kind = "IntegerColumn")
        /\ pc \in {"done", "exec_failed"} =>
             /\ (pc = "exec_failed") <=>
                    (\E i \in 1..Len(rows.data) : rows.data[i] >= nrows)
             /\ pc = "exec_failed" =>
                    /\ raised.exc = "ValueError"
                    /\ Len(raised.args) = 2
                    /\ raised.args[1] \in Range(rows.data)
                    /\ raised.args[1] >= nrows
                    /\ raised.args[2] = nrows
             /\ pc = "done" => ee.source = RI(rows.data)

\* An integer column whose largest value is nrows itself is rejected.
C6_Witness ==
    /\ pc = "exec_failed"
    /\ IsIntColumnSel(rows)
    /\ nrows > 0
    /\ raised.args = <<nrows, nrows>>

\* C7: a callable selector whose return value is itself a callable fails
\* with a type error, and the second callable is not invoked.
C7_OneLevelOfCallables ==
    (pc # "new" /\ rows.type = "function"
       /\ CallFunction(rows).type = "function") =>
        /\ pc = "make_failed"
        /\ raised.exc = "TTypeError"
        /\ calls <= 1

\* C8: a call of make_rowfilter or execute() that raises leaves the final
\* index slot, ee.rowindex and the row index of f as they were.
C8_NoWriteOnFailure ==
    [][pc' \in {"make_failed", "exec_failed"} =>
          /\ ee'.final = ee.final
          /\ ee'.target = ee.target
          /\ ee'.rowindex = ee.rowindex
          /\ ee'.f = ee.f]_vars

\* A filter expression whose evaluation raised: the source slot was written,
\* the final slot was not.
C8_Witness ==
    /\ pc = "exec_failed"
    /\ node.kind = "FilterExpr"
    /\ raised.exc = "EvalError"
    /\ ee.source = NotImplemented
    /\ ee.final = None
    /\ ee.rowindex = ri_target
    /\ ri_target # None

StrictlyAscending(s) == \A i \in 1..(Len(s) - 1) : s[i] < s[i + 1]
InverseTwice(ri, n) == inverse(inverse(ri, n), n)

\* C9 as stated: inverse(inverse(S, n), n) = S for every source index S a
\* node produces.
C9_Original ==
    (pc = "done" /\ ee.source.kind = "RowIndex") =>
        InverseTwice(ee.source, nrows) = ee.source

\* C9 amended: inverse(inverse(S, n), n) addresses the same rows as S, in
\* ascending order and once each; it equals S exactly when the positions of
\* S are strictly ascending.
C9_DoubleInverse ==
    (pc = "done" /\ ee.source.kind = "RowIndex") =>
        /\ Range(InverseTwice(ee.source, nrows).pos) = Range(ee.source.pos)
        /\ StrictlyAscending(InverseTwice(ee.source, nrows).pos)
        /\ (InverseTwice(ee.source, nrows) = ee.source)
               <=> StrictlyAscending(ee.source.pos)

\* A source index in descending order, which inverting twice does not give
\* back.
C9_Witness ==
    /\ pc = "done"
    /\ ee.source = RI(<<1, 0>>)
    /\ InverseTwice(ee.source, nrows) = RI(<<0, 1>>)

\* C10: under the eager strategy a FilterExpr node stores the final index
\* that a BooleanColumn node built from the evaluated mask stores, with the
\* same inversion flag on the same engine.
C10_EagerFilterIsBooleanColumn ==
    (pc = "done" /\ node.kind = "FilterExpr" /\ ~llvm) =>
        ee.final = RFNode_make_final_rowindex(
                       node.inverse,
                       rowindex_from_column(evaluate_eager(node.expr)),
                       ri_target, nrows)

\* An inverted filter expression executed eagerly on a view in reverse
\* order: the rows where the mask is false, in the coordinates of the parent.
C10_Witness ==
    /\ pc = "done"
    /\ node.kind = "FilterExpr"
    /\ ~llvm
    /\ node.inverse
    /\ nrows = 3
    /\ ri_target = RI(<<3, 2, 1>>)
    /\ node.expr.mask = <<1, 0, 0>>
    /\ ee.final = RI(<<2, 1>>)

\* C11: under the compiled strategy a FilterExpr node stores as final index
\* uplift(P', T) when the frame's index T is present and P' otherwise, where
\* P is the index of the rows on which the compiled predicate is true and
\* P' is inverse(P, nrows) when the inversion flag is set and P otherwise.
C11_CompiledFilterHonoursFlagAndView ==
    (pc = "done" /\ node.kind = "FilterExpr" /\ llvm) =>
        LET P == rowindex_from_filterfn(generate_c(node), nrows)
            Pinv == IF node.inverse THEN inverse(P, nrows) ELSE P
        IN ee.final = IF Truthy(ri_target) THEN uplift(Pinv, ri_target)
                      ELSE Pinv

=============================================================================
